---- MODULE Spec2Model ----
(***************************************************************************)
(* MediRepo (src/app.py): the record store behind the patient / doctor     *)
(* portal.  Four SQLite tables (patients, doctors, vitals, prescriptions), *)
(* the Streamlit form handlers that write and query them, and the          *)
(* per-session st.session_state identity.                                  *)
(*                                                                         *)
(* Text is modelled as a sequence of one-character strings so that         *)
(* lower(), upper(), strip(), slicing and strftime() are computed rather   *)
(* than assumed.  A nullable column holds <<>> for NULL and <<v>> for v.   *)
(***************************************************************************)
EXTENDS Integers, Sequences, FiniteSets, Bags, TLC

VARIABLES patients, doctors, vitals, prescriptions, session, out, pc, txn, hist, loop

vars == <<patients, doctors, vitals, prescriptions, session, out, pc, txn, hist, loop>>

(***************************************************************************)
(* Bounds of the model.                                                    *)
(***************************************************************************)
MaxPatients == 2
MaxDoctors == 2
MaxVitals == 2
MaxRx == 3

(***************************************************************************)
(* Text.                                                                   *)
(***************************************************************************)
\* Python str.lower(): Unicode-aware.
PyLowerChar(c) ==
    CASE c = "A" -> "a" [] c = "B" -> "b" [] c = "C" -> "c" [] c = "D" -> "d"
      [] c = "R" -> "r" [] c = "É" -> "é" [] OTHER -> c

\* Python str.upper(): Unicode-aware.
PyUpperChar(c) ==
    CASE c = "a" -> "A" [] c = "b" -> "B" [] c = "c" -> "C" [] c = "d" -> "D"
      [] c = "r" -> "R" [] c = "é" -> "É" [] OTHER -> c

\* SQLite lower(): folds the ASCII letters only.
SqlLowerChar(c) ==
    CASE c = "A" -> "a" [] c = "B" -> "b" [] c = "C" -> "c" [] c = "D" -> "d"
      [] c = "R" -> "r" [] OTHER -> c

\* SQLite upper(): folds the ASCII letters only.
SqlUpperChar(c) ==
    CASE c = "a" -> "A" [] c = "b" -> "B" [] c = "c" -> "C" [] c = "d" -> "D"
      [] c = "r" -> "R" [] OTHER -> c

PyLower(s) == [i \in 1..Len(s) |-> PyLowerChar(s[i])]
PyUpper(s) == [i \in 1..Len(s) |-> PyUpperChar(s[i])]
SqlLower(s) == [i \in 1..Len(s) |-> SqlLowerChar(s[i])]
SqlUpper(s) == [i \in 1..Len(s) |-> SqlUpperChar(s[i])]

IsSpace(c) == c = " "

RECURSIVE LStrip(_)
LStrip(s) == IF s # <<>> /\ IsSpace(Head(s)) THEN LStrip(Tail(s)) ELSE s

RECURSIVE RStrip(_)
RStrip(s) ==
    IF s # <<>> /\ IsSpace(s[Len(s)]) THEN RStrip(SubSeq(s, 1, Len(s) - 1)) ELSE s

\* Python str.strip()
Strip(s) == RStrip(LStrip(s))

\* Python truthiness of a str
Truthy(s) == s # <<>>

\* Python s[:n]
Prefix(s, n) == SubSeq(s, 1, IF Len(s) < n THEN Len(s) ELSE n)

\* A nullable value: None / NULL, or the value.
NULL == <<>>
Some(v) == <<v>>

(***************************************************************************)
(* Dates: datetime.date as [y, m, d]; strftime() and the text comparison   *)
(* SQLite orders TEXT columns by.                                          *)
(***************************************************************************)
Digits == <<"0", "1", "2", "3", "4", "5", "6", "7", "8", "9">>

RECURSIVE ZeroPad(_, _)
\* n in decimal, zero-padded to width w (%Y, %m, %d)
ZeroPad(n, w) ==
    IF w = 0 THEN <<>> ELSE Append(ZeroPad(n \div 10, w - 1), Digits[(n % 10) + 1])

\* date.strftime('%Y-%m-%d')
StrftimeYmd(date) ==
    ZeroPad(date.y, 4) \o <<"-">> \o ZeroPad(date.m, 2) \o <<"-">> \o ZeroPad(date.d, 2)

\* date.strftime('%Y-%m-%d %H:%M:%S'): a date has no time of day
StrftimeYmdHMS(date) ==
    StrftimeYmd(date) \o <<" ", "0", "0", ":", "0", "0", ":", "0", "0">>

DigitValue(c) == CHOOSE k \in 0..9 : Digits[k + 1] = c

RECURSIVE Number(_)
Number(s) == IF s = <<>> THEN 0 ELSE 10 * Number(SubSeq(s, 1, Len(s) - 1)) + DigitValue(s[Len(s)])

\* pd.to_datetime on 'YYYY-MM-DD HH:MM:SS'
ToDatetime(text) ==
    [y |-> Number(SubSeq(text, 1, 4)), m |-> Number(SubSeq(text, 6, 7)),
     d |-> Number(SubSeq(text, 9, 10))]

\* The byte a character is stored as.
Ord(c) ==
    CASE c = " " -> 32 [] c = "-" -> 45 [] c = ":" -> 58
      [] OTHER -> 48 + DigitValue(c)

RECURSIVE TextLeq(_, _)
\* a <= b for TEXT under SQLite's BINARY collation (memcmp, then length)
TextLeq(a, b) ==
    IF a = <<>> THEN TRUE
    ELSE IF b = <<>> THEN FALSE
    ELSE IF Ord(Head(a)) # Ord(Head(b)) THEN Ord(Head(a)) < Ord(Head(b))
    ELSE TextLeq(Tail(a), Tail(b))

(***************************************************************************)
(* The tables.  A table is the sequence of its rows in rowid order.        *)
(***************************************************************************)
PatientRow(uid, fname, lname, email, phone) ==
    [unique_id |-> uid, first_name |-> fname, last_name |-> lname,
     email |-> email, phone |-> phone,
     dob |-> NULL, location |-> NULL, height_cm |-> NULL,
     diet_pref |-> NULL, gender |-> NULL]

\* UPDATE patients SET height_cm=?, dob=?, gender=?, diet_pref=?, location=?
\* applied to one row
WithProfile(row, height, dob, gender, diet, location) ==
    [row EXCEPT !.height_cm = Some(height), !.dob = Some(dob), !.gender = Some(gender),
                !.diet_pref = Some(diet), !.location = Some(location)]

DoctorRow(id, fname, lname, email, phone, speciality) ==
    [doctor_id |-> id, first_name |-> fname, last_name |-> lname,
     email |-> email, phone |-> phone, speciality |-> speciality]

\* patients: unique_id PRIMARY KEY, email UNIQUE, phone UNIQUE (BINARY collation)
PatientsNoPhoneCheck(tbl, row) ==
    \A i \in 1..Len(tbl) :
        /\ tbl[i].unique_id # row.unique_id
        /\ tbl[i].email # row.email

PatientsNoKeyCheck(tbl, row) ==
    \A i \in 1..Len(tbl) :
        /\ tbl[i].email # row.email
        /\ tbl[i].phone # row.phone

PatientsConstraintsHold(tbl, row) ==
    \A i \in 1..Len(tbl) :
        /\ tbl[i].unique_id # row.unique_id
        /\ tbl[i].email # row.email
        /\ tbl[i].phone # row.phone

\* doctors: doctor_id AUTOINCREMENT, email UNIQUE, phone UNIQUE
DoctorsConstraintsHold(tbl, row) ==
    \A i \in 1..Len(tbl) :
        /\ tbl[i].email # row.email
        /\ tbl[i].phone # row.phone

\* AUTOINCREMENT: one more than the largest rowid ever used (rows are never deleted)
NextRowId(tbl) == Len(tbl) + 1

(***************************************************************************)
(* st.session_state of a browser session, and what the handler last        *)
(* displayed in it (st.success / st.error / st.warning).                   *)
(***************************************************************************)
Sessions == {"s1", "s2"}

NoUser == <<>>
NoArgs == <<>>

\* main(): logged_in = False, role = None, user_info = None
LoggedOut == [logged_in |-> FALSE, role |-> "None", user_info |-> NoUser]

\* op and args: the form submitted; res and val: what was displayed; tick
\* changes with every submission.
Shown(s, op, args, res, val) ==
    [out EXCEPT ![s] = [op |-> op, args |-> args, res |-> res, val |-> val,
                        tick |-> 1 - out[s].tick]]

NoLock == "none"

\* Where a session's "for med in st.session_state.medicines" loop stands: the
\* medicines still to visit, prescription_saved, and the rx_id of the rows
\* the loop has inserted.
LoopDone == [todo |-> <<>>, prescription_saved |-> FALSE, written |-> {}]

Init ==
    /\ patients = <<>>
    /\ doctors = <<>>
    /\ vitals = <<>>
    /\ prescriptions = <<>>
    /\ session = [s \in Sessions |-> LoggedOut]
    /\ out = [s \in Sessions |->
                [op |-> "none", args |-> NoArgs, res |-> "none", val |-> <<>>,
                 tick |-> 0]]
    /\ pc = [s \in Sessions |-> "idle"]
    /\ txn = [holder |-> NoLock, table |-> "none", row |-> <<>>]
    /\ hist = [s \in Sessions |-> [overlap |-> {}, fresh |-> FALSE]]
    /\ loop = [s \in Sessions |-> LoopDone]

\* The login / register forms are rendered only while logged out.
AtLoginPage(s) == pc[s] = "idle" /\ ~session[s].logged_in

\* db_execute takes SQLite's write lock for the length of its transaction.
DbFree == txn.holder = NoLock

(***************************************************************************)
(* Patient registration.                                                   *)
(***************************************************************************)
IdLen == 8

\* str(uuid.uuid4())[:8].upper()
NewUniqueId(uuid) == PyUpper(Prefix(uuid, IdLen))

PatientFormComplete(fname, email, phone) ==
    Truthy(fname) /\ Truthy(email) /\ Truthy(phone)

\* The outcome of the register_patient form: what is displayed, the id
\* displayed with it, and the patients table afterwards.
RegisterPatientOutcome(tbl, fname, lname, email, phone, uuid) ==
    IF ~PatientFormComplete(fname, email, phone)
    THEN [res |-> "ValidationError", val |-> <<>>, tbl |-> tbl]
    ELSE LET row == PatientRow(NewUniqueId(uuid), fname, lname, email, phone)
         IN  IF PatientsConstraintsHold(tbl, row)
             THEN [res |-> "Success", val |-> row.unique_id, tbl |-> Append(tbl, row)]
             ELSE [res |-> "DuplicateError", val |-> <<>>, tbl |-> tbl]

RegisterPatient(s, fname, lname, email, phone, uuid) ==
    LET o == RegisterPatientOutcome(patients, fname, lname, email, phone, uuid)
    IN  /\ AtLoginPage(s)
        /\ DbFree
        /\ Len(o.tbl) <= MaxPatients
        /\ patients' = o.tbl
        /\ out' = Shown(s, "register_patient",
                        [first_name |-> fname, last_name |-> lname, email |-> email,
                         phone |-> phone, uuid |-> uuid], o.res, o.val)
        /\ UNCHANGED <<doctors, vitals, prescriptions, session, pc, txn, hist, loop>>

(***************************************************************************)
(* Doctor registration.                                                    *)
(***************************************************************************)
DoctorFormComplete(fname, lname, email, phone, speciality) ==
    Truthy(fname) /\ Truthy(lname) /\ Truthy(email) /\ Truthy(phone) /\ Truthy(speciality)

RegisterDoctorOutcome(tbl, fname, lname, email, phone, speciality) ==
    IF ~DoctorFormComplete(fname, lname, email, phone, speciality)
    THEN [res |-> "ValidationError", tbl |-> tbl]
    ELSE LET row == DoctorRow(NextRowId(tbl), fname, lname, email, phone, speciality)
         IN  IF DoctorsConstraintsHold(tbl, row)
             THEN [res |-> "Success", tbl |-> Append(tbl, row)]
             ELSE [res |-> "DuplicateError", tbl |-> tbl]

RegisterDoctor(s, fname, lname, email, phone, speciality) ==
    LET o == RegisterDoctorOutcome(doctors, fname, lname, email, phone, speciality)
    IN  /\ AtLoginPage(s)
        /\ DbFree
        /\ Len(o.tbl) <= MaxDoctors
        /\ doctors' = o.tbl
        /\ out' = Shown(s, "register_doctor",
                        [first_name |-> fname, last_name |-> lname, email |-> email,
                         phone |-> phone, speciality |-> speciality], o.res, <<>>)
        /\ UNCHANGED <<patients, vitals, prescriptions, session, pc, txn, hist, loop>>

(***************************************************************************)
(* Login and logout.                                                       *)
(***************************************************************************)
\* SELECT * FROM patients WHERE lower(first_name)=? AND upper(unique_id)=?
PatientLoginQuery(tbl, p1, p2) ==
    LET Match(r) == SqlLower(r.first_name) = p1 /\ SqlUpper(r.unique_id) = p2
    IN  SelectSeq(tbl, Match)

\* The rows the login_patient form looks up for the submitted values.
PatientLoginRows(tbl, fname, unique_id) ==
    PatientLoginQuery(tbl, Strip(PyLower(fname)), Strip(PyUpper(unique_id)))

LoginPatient(s, fname, unique_id) ==
    LET user_data == PatientLoginRows(patients, fname, unique_id)
        args == [first_name |-> fname, unique_id |-> unique_id]
    IN  /\ AtLoginPage(s)
        /\ IF user_data # <<>>
           THEN /\ session' = [session EXCEPT ![s] =
                      [logged_in |-> TRUE, role |-> "Patient", user_info |-> user_data[1]]]
                /\ out' = Shown(s, "login_patient", args, "Success", <<>>)
           ELSE /\ session' = session
                /\ out' = Shown(s, "login_patient", args, "AuthError", <<>>)
        /\ UNCHANGED <<patients, doctors, vitals, prescriptions, pc, txn, hist, loop>>

\* SELECT * FROM doctors WHERE lower(first_name)=? AND lower(last_name)=? AND phone=?
DoctorLoginQuery(tbl, p1, p2, p3) ==
    LET Match(r) == /\ SqlLower(r.first_name) = p1
                    /\ SqlLower(r.last_name) = p2
                    /\ r.phone = p3
    IN  SelectSeq(tbl, Match)

DoctorLoginRows(tbl, fname, lname, phone) ==
    DoctorLoginQuery(tbl, Strip(PyLower(fname)), Strip(PyLower(lname)), Strip(phone))

DoctorUserInfo(r) ==
    [id |-> r.doctor_id, first_name |-> r.first_name, last_name |-> r.last_name,
     email |-> r.email, phone |-> r.phone, speciality |-> r.speciality]

LoginDoctor(s, fname, lname, phone) ==
    LET user_data == DoctorLoginRows(doctors, fname, lname, phone)
        args == [first_name |-> fname, last_name |-> lname, phone |-> phone]
    IN  /\ AtLoginPage(s)
        /\ IF user_data # <<>>
           THEN /\ session' = [session EXCEPT ![s] =
                      [logged_in |-> TRUE, role |-> "Doctor",
                       user_info |-> DoctorUserInfo(user_data[1])]]
                /\ out' = Shown(s, "login_doctor", args, "Success", <<>>)
           ELSE /\ session' = session
                /\ out' = Shown(s, "login_doctor", args, "AuthError", <<>>)
        /\ UNCHANGED <<patients, doctors, vitals, prescriptions, pc, txn, hist, loop>>

\* Logout deletes every key of st.session_state; main() then re-creates the
\* logged-out identity on the rerun.
Logout(s) ==
    /\ pc[s] = "idle"
    /\ session[s].logged_in
    /\ session' = [session EXCEPT ![s] = LoggedOut]
    /\ out' = Shown(s, "logout", NoArgs, "Success", <<>>)
    /\ UNCHANGED <<patients, doctors, vitals, prescriptions, pc, txn, hist, loop>>

(***************************************************************************)
(* The patient dashboard: profile, vitals.                                 *)
(***************************************************************************)
AtPatientDashboard(s) ==
    pc[s] = "idle" /\ session[s].logged_in /\ session[s].role = "Patient"

\* UPDATE patients SET ... WHERE unique_id=?
UpdateEveryPatient(tbl, uid, height, dob, gender, diet, location) ==
    [i \in 1..Len(tbl) |-> WithProfile(tbl[i], height, dob, gender, diet, location)]

UpdatePatients(tbl, uid, height, dob, gender, diet, location) ==
    [i \in 1..Len(tbl) |->
        IF tbl[i].unique_id = uid
        THEN WithProfile(tbl[i], height, dob, gender, diet, location)
        ELSE tbl[i]]

\* "Save Profile": the UPDATE, then the same five values into user_info.
SaveProfile(s, height, dob, gender, diet, location) ==
    LET user == session[s].user_info
        dobText == StrftimeYmd(dob)
    IN  /\ AtPatientDashboard(s)
        /\ DbFree
        /\ patients' = UpdatePatients(patients, user.unique_id, height, dobText,
                                      gender, diet, location)
        /\ session' = [session EXCEPT ![s].user_info =
                          WithProfile(user, height, dobText, gender, diet, location)]
        /\ out' = Shown(s, "save_profile",
                        [height |-> height, dob |-> dob, gender |-> gender,
                         diet |-> diet, location |-> location], "Success", <<>>)
        /\ UNCHANGED <<doctors, vitals, prescriptions, pc, txn, hist, loop>>

StoreAsGiven(x) == Some(x)

\* x if x > 0 else None
NoneIfZero(x) == IF x > 0 THEN Some(x) ELSE NULL

VitalRow(id, patient_id, record_date, weight, bp_s, bp_d, hr, sugar) ==
    [vital_id |-> id, patient_id |-> patient_id, record_date |-> record_date,
     weight_kg |-> NoneIfZero(weight), bp_systolic |-> NoneIfZero(bp_s),
     bp_diastolic |-> NoneIfZero(bp_d), heart_rate |-> NoneIfZero(hr),
     sugar_level |-> NoneIfZero(sugar)]

\* "Save Record": one INSERT INTO vitals for the logged-in patient.
RecordVital(s, record_date, weight, bp_s, bp_d, hr, sugar) ==
    /\ AtPatientDashboard(s)
    /\ DbFree
    /\ Len(vitals) < MaxVitals
    /\ vitals' = Append(vitals,
                        VitalRow(NextRowId(vitals), session[s].user_info.unique_id,
                                 StrftimeYmdHMS(record_date), weight, bp_s, bp_d, hr, sugar))
    /\ out' = Shown(s, "record_vital",
                    [record_date |-> record_date, weight |-> weight, bp_s |-> bp_s,
                     bp_d |-> bp_d, hr |-> hr, sugar |-> sugar], "Success", <<>>)
    /\ UNCHANGED <<patients, doctors, prescriptions, session, pc, txn, hist, loop>>

RECURSIVE InsertByDate(_, _)
\* row put after the last row of the sorted sequence whose date is <= its own
InsertByDate(sorted, row) ==
    IF sorted = <<>> THEN <<row>>
    ELSE IF TextLeq(sorted[Len(sorted)].record_date, row.record_date)
         THEN Append(sorted, row)
         ELSE Append(InsertByDate(SubSeq(sorted, 1, Len(sorted) - 1), row),
                     sorted[Len(sorted)])

RECURSIVE SortedByDate(_)
SortedByDate(rows) ==
    IF rows = <<>> THEN <<>>
    ELSE InsertByDate(SortedByDate(SubSeq(rows, 1, Len(rows) - 1)), rows[Len(rows)])

InRowidOrder(rows) == rows

\* ORDER BY record_date ASC (rows of equal date stay in rowid order)
OrderByRecordDateAsc(rows) == SortedByDate(rows)

\* SELECT ... FROM vitals WHERE patient_id = ? ORDER BY record_date ASC
VitalsQuery(tbl, patient_id) ==
    LET Mine(r) == r.patient_id = patient_id
    IN  OrderByRecordDateAsc(SelectSeq(tbl, Mine))

\* One line of the DataFrame: the six selected columns, Date parsed.
VitalsFrameRow(r) ==
    [Date |-> ToDatetime(r.record_date), Weight |-> r.weight_kg,
     BPSystolic |-> r.bp_systolic, BPDiastolic |-> r.bp_diastolic,
     HeartRate |-> r.heart_rate, Sugar |-> r.sugar_level]

\* get_patient_vitals: the DataFrame as the sequence of its lines; the empty
\* DataFrame is the empty sequence.
GetPatientVitals(tbl, patient_id) ==
    LET vitals_data == VitalsQuery(tbl, patient_id)
    IN  IF vitals_data = <<>> THEN <<>>
        ELSE [i \in 1..Len(vitals_data) |-> VitalsFrameRow(vitals_data[i])]

\* A rerun of the dashboard: it fetches the logged-in patient's vitals.
ViewVitals(s) ==
    /\ AtPatientDashboard(s)
    /\ out' = Shown(s, "get_patient_vitals", NoArgs, "Success",
                    GetPatientVitals(vitals, session[s].user_info.unique_id))
    /\ UNCHANGED <<patients, doctors, vitals, prescriptions, session, pc, txn, hist, loop>>

(***************************************************************************)
(* The doctor portal: prescriptions.                                       *)
(***************************************************************************)
AtDoctorPortal(s) ==
    pc[s] = "idle" /\ session[s].logged_in /\ session[s].role = "Doctor"

\* f"Dr. {user['first_name']} {user.get('last_name', '')}".strip()
DoctorFullName(user) ==
    Strip(<<"D", "r", ".", " ">> \o user.first_name \o <<" ">> \o user.last_name)

\* SELECT 1 FROM patients WHERE upper(unique_id)=?
EveryPatient(tbl, p1) == tbl

PatientExistsQuery(tbl, p1) ==
    LET Match(r) == SqlUpper(r.unique_id) = p1
    IN  SelectSeq(tbl, Match)

\* patient_id.upper().strip()
NormalisedId(patient_id) == Strip(PyUpper(patient_id))

NonEmpty(name) == Truthy(name)

\* med['name'].strip()
NonBlank(name) == Truthy(Strip(name))

RxRowAsTypedLower(id, patient_id, doctor_name, visit_date, summary, med) ==
    [rx_id |-> id, patient_id |-> PyLower(patient_id), doctor_name |-> doctor_name,
     visit_date |-> visit_date, summary |-> summary, medicine |-> med.name,
     frequency |-> med.freq, timing |-> med.timing]

\* INSERT INTO prescriptions (patient_id, doctor_name, visit_date, summary,
\* medicine, frequency, timing): rx_id is assigned by AUTOINCREMENT
RxRow(id, patient_id, doctor_name, visit_date, summary, med) ==
    [rx_id |-> id, patient_id |-> patient_id, doctor_name |-> doctor_name,
     visit_date |-> visit_date, summary |-> summary, medicine |-> med.name,
     frequency |-> med.freq, timing |-> med.timing]

RECURSIVE InsertMedicines(_, _, _, _, _, _)
\* for med in st.session_state.medicines: if med['name'].strip(): INSERT ...
InsertMedicines(tbl, meds, patient_id, doctor_name, visit_date, summary) ==
    IF meds = <<>> THEN tbl
    ELSE LET med == Head(meds)
             next == IF NonBlank(med.name)
                     THEN Append(tbl, RxRow(NextRowId(tbl), patient_id, doctor_name,
                                            visit_date, summary, med))
                     ELSE tbl
         IN  InsertMedicines(next, Tail(meds), patient_id, doctor_name, visit_date, summary)

\* The outcome of "Save Full Prescription": what is displayed and the
\* prescriptions table afterwards.
SavePrescriptionOutcome(ptbl, rtbl, full_name, patient_id, visit_date, summary, medicines) ==
    IF ~Truthy(patient_id)
    THEN [res |-> "ValidationError", tbl |-> rtbl]
    ELSE IF PatientExistsQuery(ptbl, NormalisedId(patient_id)) = <<>>
    THEN [res |-> "NotFoundError", tbl |-> rtbl]
    ELSE LET after == InsertMedicines(rtbl, medicines, NormalisedId(patient_id), full_name,
                                      StrftimeYmd(visit_date), summary)
             prescription_saved == \E i \in 1..Len(medicines) : NonBlank(medicines[i].name)
         IN  [res |-> IF prescription_saved THEN "Success" ELSE "EmptySubmissionError",
              tbl |-> after]

SavePrescription(s, patient_id, visit_date, summary, medicines) ==
    LET o == SavePrescriptionOutcome(patients, prescriptions,
                                     DoctorFullName(session[s].user_info), patient_id,
                                     visit_date, summary, medicines)
    IN  /\ AtDoctorPortal(s)
        /\ DbFree
        /\ Len(o.tbl) <= MaxRx
        /\ prescriptions' = o.tbl
        /\ out' = Shown(s, "save_prescription",
                        [patient_id |-> patient_id, visit_date |-> visit_date,
                         summary |-> summary, medicines |-> medicines], o.res, <<>>)
        /\ UNCHANGED <<patients, doctors, vitals, session, pc, txn, hist, loop>>

(***************************************************************************)
(* Saving a prescription step by step.  The handler calls db_execute once  *)
(* per medicine, and every call opens a connection, runs its INSERT and    *)
(* commits it; other sessions run between two calls.                       *)
(***************************************************************************)
RECURSIVE CountNamed(_)
\* how many entries of a medicine list pass "if med['name'].strip()"
CountNamed(meds) ==
    IF meds = <<>> THEN 0
    ELSE (IF NonBlank(Head(meds).name) THEN 1 ELSE 0) + CountNamed(Tail(meds))

\* Rows that loops already under way will still insert.
RowsToCome ==
    LET Pending(s) == CountNamed(loop[s].todo)
    IN  Pending("s1") + Pending("s2")

\* "Save Full Prescription" pressed: the required-field check and the
\* patient-existence query; the loop over the medicines follows.
SubmitPrescription(s, patient_id, visit_date, summary, medicines) ==
    LET args == [patient_id |-> patient_id, visit_date |-> visit_date,
                 summary |-> summary, medicines |-> medicines]
    IN  /\ AtDoctorPortal(s)
        /\ Len(prescriptions) + RowsToCome + CountNamed(medicines) <= MaxRx
        /\ IF ~Truthy(patient_id)
           THEN /\ out' = Shown(s, "save_prescription", args, "ValidationError", <<>>)
                /\ UNCHANGED <<pc, loop>>
           ELSE IF PatientExistsQuery(patients, NormalisedId(patient_id)) = <<>>
           THEN /\ out' = Shown(s, "save_prescription", args, "NotFoundError", <<>>)
                /\ UNCHANGED <<pc, loop>>
           ELSE /\ out' = Shown(s, "save_prescription", args, "pending", <<>>)
                /\ pc' = [pc EXCEPT ![s] = "medicines"]
                /\ loop' = [loop EXCEPT ![s] = [todo |-> medicines,
                                                prescription_saved |-> FALSE,
                                                written |-> {}]]
        /\ UNCHANGED <<patients, doctors, vitals, prescriptions, session, txn, hist>>

\* One pass of the loop body: a medicine with a blank name is skipped, any
\* other is inserted and committed by its own db_execute.
NextMedicine(s) ==
    /\ pc[s] = "medicines"
    /\ loop[s].todo # <<>>
    /\ LET med == Head(loop[s].todo)
           a == out[s].args
           id == NextRowId(prescriptions)
       IN  IF NonBlank(med.name)
           THEN /\ DbFree
                /\ prescriptions' =
                       Append(prescriptions,
                              RxRow(id, NormalisedId(a.patient_id),
                                    DoctorFullName(session[s].user_info),
                                    StrftimeYmd(a.visit_date), a.summary, med))
                /\ loop' = [loop EXCEPT ![s] = [todo |-> Tail(@.todo),
                                                prescription_saved |-> TRUE,
                                                written |-> @.written \cup {id}]]
           ELSE /\ prescriptions' = prescriptions
                /\ loop' = [loop EXCEPT ![s].todo = Tail(@)]
    /\ UNCHANGED <<patients, doctors, vitals, session, out, pc, txn, hist>>

\* After the loop: st.success if prescription_saved, else st.warning.
FinishPrescription(s) ==
    /\ pc[s] = "medicines"
    /\ loop[s].todo = <<>>
    /\ out' = [out EXCEPT ![s].res = IF loop[s].prescription_saved THEN "Success"
                                     ELSE "EmptySubmissionError"]
    /\ pc' = [pc EXCEPT ![s] = "idle"]
    /\ loop' = [loop EXCEPT ![s] = LoopDone]
    /\ UNCHANGED <<patients, doctors, vitals, prescriptions, session, txn, hist>>

\* A db_execute of the loop raises (sqlite3.OperationalError from connect or
\* execute): nothing catches it, the script run ends there, and the rows
\* the earlier calls committed stay.
StopPartWay(s) ==
    /\ pc[s] = "medicines"
    /\ loop[s].todo # <<>>
    /\ NonBlank(Head(loop[s].todo).name)
    /\ out' = [out EXCEPT ![s].res = "OperationalError"]
    /\ pc' = [pc EXCEPT ![s] = "idle"]
    /\ loop' = [loop EXCEPT ![s] = LoopDone]
    /\ UNCHANGED <<patients, doctors, vitals, prescriptions, session, txn, hist>>

(***************************************************************************)
(* The dashboard's prescription history.                                   *)
(***************************************************************************)
RECURSIVE InsertByVisitDate(_, _)
\* row put after the last row of the sequence whose visit_date is >= its own
InsertByVisitDate(sorted, row) ==
    IF sorted = <<>> THEN <<row>>
    ELSE IF TextLeq(row.visit_date, sorted[Len(sorted)].visit_date)
         THEN Append(sorted, row)
         ELSE Append(InsertByVisitDate(SubSeq(sorted, 1, Len(sorted) - 1), row),
                     sorted[Len(sorted)])

RECURSIVE OrderByVisitDateDesc(_)
\* ORDER BY visit_date DESC (rows of equal date stay in rowid order)
OrderByVisitDateDesc(rows) ==
    IF rows = <<>> THEN <<>>
    ELSE InsertByVisitDate(OrderByVisitDateDesc(SubSeq(rows, 1, Len(rows) - 1)),
                           rows[Len(rows)])

\* SELECT ... FROM prescriptions WHERE patient_id = ? ORDER BY visit_date DESC
PrescriptionsQuery(tbl, patient_id) ==
    LET Mine(r) == r.patient_id = patient_id
    IN  OrderByVisitDateDesc(SelectSeq(tbl, Mine))

\* One line of the DataFrame: the six selected columns.
RxFrameRow(r) ==
    [VisitDate |-> r.visit_date, Doctor |-> r.doctor_name, Summary |-> r.summary,
     Medicine |-> r.medicine, Frequency |-> r.frequency, Timing |-> r.timing]

\* get_patient_prescriptions: the DataFrame as the sequence of its lines.
GetPatientPrescriptions(tbl, patient_id) ==
    LET rx_data == PrescriptionsQuery(tbl, patient_id)
    IN  IF rx_data = <<>> THEN <<>>
        ELSE [i \in 1..Len(rx_data) |-> RxFrameRow(rx_data[i])]

RECURSIVE BeforeSpace(_)
\* visit_date.split(' ')[0]
BeforeSpace(text) ==
    IF text = <<>> \/ Head(text) = " " THEN <<>>
    ELSE <<Head(text)>> \o BeforeSpace(Tail(text))

RECURSIVE GroupKeys(_)
\* groupby('Visit Date'): the distinct dates of the frame, ascending
GroupKeys(df) ==
    IF df = <<>> THEN <<>>
    ELSE LET rest == GroupKeys(SubSeq(df, 1, Len(df) - 1))
             key == df[Len(df)].VisitDate
         IN  IF \E i \in 1..Len(rest) : rest[i] = key THEN rest
             ELSE LET before == SelectSeq(rest, LAMBDA k : TextLeq(k, key))
                      after == SelectSeq(rest, LAMBDA k : ~TextLeq(k, key))
                  IN  before \o <<key>> \o after

\* One expander of the history: the date, the doctor and the diagnosis of
\* the group's first line, and the group's medicines.
VisitGroup(df, visit_date) ==
    LET group == SelectSeq(df, LAMBDA r : r.VisitDate = visit_date)
    IN  [visit |-> BeforeSpace(visit_date),
         doctor |-> group[1].Doctor,
         diagnosis |-> IF Truthy(group[1].Summary) THEN group[1].Summary
                       ELSE <<"N", "/", "A">>,
         medicines |-> [i \in 1..Len(group) |->
                          [Medicine |-> group[i].Medicine,
                           Frequency |-> group[i].Frequency,
                           Timing |-> group[i].Timing]]]

\* for visit_date, group in prescriptions_df.groupby('Visit Date'): ...
PrescriptionHistory(df) ==
    LET keys == GroupKeys(df)
    IN  [i \in 1..Len(keys) |-> VisitGroup(df, keys[i])]

\* A rerun of the dashboard: it fetches the logged-in patient's
\* prescriptions and shows them grouped by visit.
ViewPrescriptions(s) ==
    LET df == GetPatientPrescriptions(prescriptions, session[s].user_info.unique_id)
    IN  /\ AtPatientDashboard(s)
        /\ out' = Shown(s, "get_patient_prescriptions", NoArgs,
                        IF df = <<>> THEN "Empty" ELSE "Success",
                        [frame |-> df, history |-> PrescriptionHistory(df)])
        /\ UNCHANGED <<patients, doctors, vitals, prescriptions, session, pc, txn, hist,
                       loop>>

(***************************************************************************)
(* Registration step by step, for sessions that run at the same time.      *)
(* db_execute opens its own connection; the INSERT takes the database's    *)
(* write lock and checks the constraints, commit() makes the row visible   *)
(* and releases the lock.  A second writer waits for the lock (sqlite3's   *)
(* busy timeout).  hist records, for the registration a session submitted  *)
(* last, which other sessions had one in flight during it and whether its  *)
(* email and phone were both unused when it was submitted.                 *)
(***************************************************************************)
InFlight(s) == pc[s] # "idle"

Began(s, fresh) ==
    [t \in Sessions |->
        IF t = s THEN [overlap |-> { u \in Sessions \ {s} : InFlight(u) }, fresh |-> fresh]
        ELSE IF InFlight(t) THEN [hist[t] EXCEPT !.overlap = @ \cup {s}]
        ELSE hist[t]]

Released == [holder |-> NoLock, table |-> "none", row |-> <<>>]

\* "Register" pressed on register_patient: the mandatory-field check, the
\* token, and the call of db_execute.
SubmitRegisterPatient(s, fname, lname, email, phone, uuid) ==
    LET args == [first_name |-> fname, last_name |-> lname, email |-> email,
                 phone |-> phone, uuid |-> uuid]
    IN  /\ AtLoginPage(s)
        /\ IF ~PatientFormComplete(fname, email, phone)
           THEN /\ out' = Shown(s, "register_patient", args, "ValidationError", <<>>)
                /\ pc' = pc
                /\ hist' = [hist EXCEPT ![s] = [overlap |-> {}, fresh |-> FALSE]]
           ELSE /\ out' = Shown(s, "register_patient", args, "pending", <<>>)
                /\ pc' = [pc EXCEPT ![s] = "execute"]
                /\ hist' = Began(s, \A i \in 1..Len(patients) :
                                        /\ patients[i].email # email
                                        /\ patients[i].phone # phone)
        /\ UNCHANGED <<patients, doctors, vitals, prescriptions, session, txn, loop>>

\* "Register" pressed on register_doctor.
SubmitRegisterDoctor(s, fname, lname, email, phone, speciality) ==
    LET args == [first_name |-> fname, last_name |-> lname, email |-> email,
                 phone |-> phone, speciality |-> speciality]
    IN  /\ AtLoginPage(s)
        /\ IF ~DoctorFormComplete(fname, lname, email, phone, speciality)
           THEN /\ out' = Shown(s, "register_doctor", args, "ValidationError", <<>>)
                /\ pc' = pc
                /\ hist' = [hist EXCEPT ![s] = [overlap |-> {}, fresh |-> FALSE]]
           ELSE /\ out' = Shown(s, "register_doctor", args, "pending", <<>>)
                /\ pc' = [pc EXCEPT ![s] = "execute"]
                /\ hist' = Began(s, \A i \in 1..Len(doctors) :
                                        /\ doctors[i].email # email
                                        /\ doctors[i].phone # phone)
        /\ UNCHANGED <<patients, doctors, vitals, prescriptions, session, txn, loop>>

\* The row the session's INSERT carries.
PendingRow(s) ==
    LET a == out[s].args
    IN  IF out[s].op = "register_patient"
        THEN PatientRow(NewUniqueId(a.uuid), a.first_name, a.last_name, a.email, a.phone)
        ELSE DoctorRow(NextRowId(doctors), a.first_name, a.last_name, a.email, a.phone,
                       a.speciality)

\* c.execute(INSERT ...): under the write lock, the row is checked against
\* the table; sqlite3.IntegrityError leaves the function before commit().
DbExecute(s) ==
    LET row == PendingRow(s)
        patient == out[s].op = "register_patient"
        ok == IF patient THEN PatientsConstraintsHold(patients, row)
              ELSE DoctorsConstraintsHold(doctors, row)
    IN  /\ pc[s] = "execute"
        /\ DbFree
        /\ ok => IF patient THEN Len(patients) < MaxPatients ELSE Len(doctors) < MaxDoctors
        /\ txn' = IF ok THEN [holder |-> s, table |-> IF patient THEN "patients" ELSE "doctors",
                              row |-> row]
                  ELSE [holder |-> s, table |-> "none", row |-> <<>>]
        /\ pc' = [pc EXCEPT ![s] = IF ok THEN "commit" ELSE "raise"]
        /\ UNCHANGED <<patients, doctors, vitals, prescriptions, session, out, hist, loop>>

\* conn.commit(); conn.close(); then st.success(...)
DbCommit(s) ==
    /\ pc[s] = "commit"
    /\ txn.holder = s
    /\ IF txn.table = "patients"
       THEN /\ patients' = Append(patients, txn.row)
            /\ doctors' = doctors
            /\ out' = [out EXCEPT ![s].res = "Success", ![s].val = txn.row.unique_id]
       ELSE /\ doctors' = Append(doctors, txn.row)
            /\ patients' = patients
            /\ out' = [out EXCEPT ![s].res = "Success"]
    /\ txn' = Released
    /\ pc' = [pc EXCEPT ![s] = "idle"]
    /\ UNCHANGED <<vitals, prescriptions, session, hist, loop>>

\* except sqlite3.IntegrityError: st.error(...); the abandoned connection is
\* rolled back and closed.
DbRaise(s) ==
    /\ pc[s] = "raise"
    /\ txn.holder = s
    /\ out' = [out EXCEPT ![s].res = "DuplicateError"]
    /\ txn' = Released
    /\ pc' = [pc EXCEPT ![s] = "idle"]
    /\ UNCHANGED <<patients, doctors, vitals, prescriptions, session, hist, loop>>

(***************************************************************************)
(* Registration and login: the values the forms are given.                 *)
(***************************************************************************)
Empty == <<>>

\* str(uuid.uuid4()): lower-case hex digits and hyphens
Uuids == { <<"1", "c", "0", "0", "0", "0", "0", "a", "-", "4", "b">>,
           <<"2", "d", "0", "0", "0", "0", "0", "b", "-", "4", "a">> }

PForm(f, l, e, p) == [first_name |-> f, last_name |-> l, email |-> e, phone |-> p]

\* register_patient submissions: two that can coexist under names differing
\* in case only, a padded name and a non-ASCII name that collide with them
\* on email / phone, and one with a mandatory field left empty.
PatientForms ==
    { PForm(<<"B">>, Empty, <<"x">>, <<"1">>),
      PForm(<<"b">>, <<"d">>, <<"y">>, <<"2">>),
      PForm(<<"b", " ">>, Empty, <<"y">>, <<"1">>),
      PForm(<<"É">>, Empty, <<"x">>, <<"2">>),
      PForm(<<"B">>, Empty, Empty, <<"2">>) }

DForm(f, l, e, p, sp) ==
    [first_name |-> f, last_name |-> l, email |-> e, phone |-> p, speciality |-> sp]

DoctorForms ==
    { DForm(<<"B">>, <<"d">>, <<"x">>, <<"1">>, <<"c">>),
      DForm(<<"É">>, <<"D">>, <<"y">>, <<"2", " ">>, <<"c">>),
      DForm(<<"b">>, <<"d">>, <<"x">>, <<"2", " ">>, <<"c">>),
      DForm(<<"B">>, <<"d">>, <<"y">>, <<"1">>, Empty) }

TypedFirstNames == { <<"b">>, <<" ", "B">>, <<"b", " ">>, <<"É">> }
TypedIds == UNION { { NewUniqueId(u), <<" ">> \o PyLower(NewUniqueId(u)) } : u \in Uuids }

DLogin(f, l, p) == [first_name |-> f, last_name |-> l, phone |-> p]

DoctorLogins ==
    { DLogin(<<"B">>, <<"d">>, <<"1">>),
      DLogin(<<"b", " ">>, <<"D">>, <<" ", "1">>),
      DLogin(<<"B">>, <<"d">>, <<"2", " ">>),
      DLogin(<<"b">>, <<"d">>, <<"2", " ">>),
      DLogin(<<"É">>, <<"D">>, <<"2", " ">>),
      DLogin(<<"É">>, <<"D">>, <<"2">>) }

AuthSessions == {"s1"}

NextAuth ==
    \E s \in AuthSessions :
        \/ \E a \in PatientForms, u \in Uuids :
               RegisterPatient(s, a.first_name, a.last_name, a.email, a.phone, u)
        \/ \E a \in DoctorForms :
               RegisterDoctor(s, a.first_name, a.last_name, a.email, a.phone, a.speciality)
        \/ \E f \in TypedFirstNames, u \in TypedIds : LoginPatient(s, f, u)
        \/ \E a \in DoctorLogins : LoginDoctor(s, a.first_name, a.last_name, a.phone)
        \/ Logout(s)

SpecAuth == Init /\ [][NextAuth]_vars

(***************************************************************************)
(* The dashboard: two patients sign up, log in, and use the forms.         *)
(***************************************************************************)
Signup(form, uuid) == [form |-> form, uuid |-> uuid]

PatientSignups ==
    { Signup(PForm(<<"B">>, Empty, <<"x">>, <<"1">>),
             <<"1", "c", "0", "0", "0", "0", "0", "a", "-", "4", "b">>),
      Signup(PForm(<<"b">>, <<"d">>, <<"y">>, <<"2">>),
             <<"2", "d", "0", "0", "0", "0", "0", "b", "-", "4", "a">>) }

PatientLogins ==
    { [first_name |-> a.form.first_name, unique_id |-> PyLower(NewUniqueId(a.uuid))]
        : a \in PatientSignups }

Date(y, m, d) == [y |-> y, m |-> m, d |-> d]

\* October before February, so that rows are recorded out of date order, and
\* months whose order as numbers and as unpadded text differ.
RecordDates == { Date(2024, 10, 1), Date(2024, 2, 9) }

VForm(w, s, d, h, g) == [weight |-> w, bp_s |-> s, bp_d |-> d, hr |-> h, sugar |-> g]

VitalForms == { VForm(0, 0, 0, 0, 0), VForm(705, 0, 80, 0, 5), VForm(0, 120, 0, 60, 0) }

NextVitals ==
    \E s \in AuthSessions :
        \/ \E a \in PatientSignups :
               RegisterPatient(s, a.form.first_name, a.form.last_name, a.form.email,
                               a.form.phone, a.uuid)
        \/ \E a \in PatientLogins : LoginPatient(s, a.first_name, a.unique_id)
        \/ \E d \in RecordDates, v \in VitalForms :
               RecordVital(s, d, v.weight, v.bp_s, v.bp_d, v.hr, v.sugar)
        \/ ViewVitals(s)
        \/ Logout(s)

SpecVitals == Init /\ [][NextVitals]_vars

ProfForm(h, dob, g, diet, loc) ==
    [height |-> h, dob |-> dob, gender |-> g, diet |-> diet, location |-> loc]

ProfileForms ==
    { ProfForm(1700, Date(1990, 5, 17), "Male", "Jain", <<"L">>),
      ProfForm(0, Date(2000, 1, 1), "Other", "Vegetarian", Empty) }

NextProfile ==
    \E s \in Sessions :
        \/ \E a \in PatientSignups :
               RegisterPatient(s, a.form.first_name, a.form.last_name, a.form.email,
                               a.form.phone, a.uuid)
        \/ \E a \in PatientLogins : LoginPatient(s, a.first_name, a.unique_id)
        \/ \E a \in ProfileForms :
               SaveProfile(s, a.height, a.dob, a.gender, a.diet, a.location)
        \/ Logout(s)

SpecProfile == Init /\ [][NextProfile]_vars

(***************************************************************************)
(* The portal: patients and doctors sign up, a doctor logs in and saves    *)
(* prescriptions.                                                          *)
(***************************************************************************)
DoctorSignups ==
    { DForm(<<"B">>, <<"d">>, <<"x">>, <<"1">>, <<"c">>),
      DForm(<<"a">>, <<"D">>, <<"y">>, <<"2">>, <<"c">>) }

Med(name, freq, timing) == [name |-> name, freq |-> freq, timing |-> timing]

Blank == Med(Empty, "Once a day", "After Breakfast")
Spaces == Med(<<" ">>, "Once a day", "After Breakfast")
Aspirin == Med(<<"m">>, "Once a day", "After Breakfast")
Syrup == Med(<<" ", "n">>, "Twice a day", "Before Sleep")

Rx(patient_id, visit_date, summary, medicines) ==
    [patient_id |-> patient_id, visit_date |-> visit_date, summary |-> summary,
     medicines |-> medicines]

\* Requests for the two patients (ids typed exactly, in lower case, padded),
\* for an id nobody has, for a blank and for an empty id; medicine lists
\* with none, some and only blank names.
RxForms ==
    { Rx(<<" ", "1", "c", "0", "0", "0", "0", "0", "a">>, Date(2024, 2, 9), <<"s">>,
         <<Blank, Aspirin>>),
      Rx(<<"2", "D", "0", "0", "0", "0", "0", "B">>, Date(2024, 10, 1), Empty,
         <<Aspirin, Syrup>>),
      Rx(<<"1", "C", "0", "0", "0", "0", "0", "A">>, Date(2024, 2, 9), <<"s">>,
         <<Blank, Spaces>>),
      Rx(<<"2", "d", "0", "0", "0", "0", "0", "b", " ">>, Date(2024, 2, 9), <<"s">>, <<>>),
      Rx(Empty, Date(2024, 2, 9), <<"s">>, <<Aspirin>>),
      Rx(<<" ">>, Date(2024, 2, 9), Empty, <<Aspirin>>),
      Rx(<<"3", "E", "0", "0", "0", "0", "0", "C">>, Date(2024, 10, 1), <<"s">>,
         <<Aspirin, Syrup>>),
      Rx(<<"1", "C", "0", "0", "0", "0", "0">>, Date(2024, 10, 1), <<"s">>, <<Blank>>) }

NextRx ==
    \E s \in AuthSessions :
        \/ \E a \in PatientSignups :
               RegisterPatient(s, a.form.first_name, a.form.last_name, a.form.email,
                               a.form.phone, a.uuid)
        \/ \E a \in DoctorSignups :
               RegisterDoctor(s, a.first_name, a.last_name, a.email, a.phone, a.speciality)
        \/ \E a \in DoctorSignups : LoginDoctor(s, a.first_name, a.last_name, a.phone)
        \/ \E a \in RxForms :
               SavePrescription(s, a.patient_id, a.visit_date, a.summary, a.medicines)
        \/ Logout(s)

SpecRx == Init /\ [][NextRx]_vars

(***************************************************************************)
(* Two sessions registering at the same time.                              *)
(***************************************************************************)
RacingSignups ==
    { Signup(PForm(<<"B">>, Empty, <<"x">>, <<"1">>),
             <<"1", "c", "0", "0", "0", "0", "0", "a", "-", "4", "b">>),
      Signup(PForm(<<"b">>, <<"d">>, <<"y">>, <<"2">>),
             <<"1", "c", "0", "0", "0", "0", "0", "a", "-", "4", "b">>),
      Signup(PForm(<<"b">>, <<"d">>, <<"y">>, <<"2">>),
             <<"2", "d", "0", "0", "0", "0", "0", "b", "-", "4", "a">>),
      Signup(PForm(<<"b", " ">>, Empty, <<"y">>, <<"1">>),
             <<"2", "d", "0", "0", "0", "0", "0", "b", "-", "4", "a">>),
      Signup(PForm(<<"B">>, Empty, Empty, <<"2">>),
             <<"2", "d", "0", "0", "0", "0", "0", "b", "-", "4", "a">>) }

RacingDoctorForms ==
    { DForm(<<"B">>, <<"d">>, <<"x">>, <<"1">>, <<"c">>),
      DForm(<<"b">>, <<"d">>, <<"x">>, <<"2", " ">>, <<"c">>) }

NextRace ==
    \E s \in Sessions :
        \/ \E a \in RacingSignups :
               SubmitRegisterPatient(s, a.form.first_name, a.form.last_name, a.form.email,
                                     a.form.phone, a.uuid)
        \/ \E a \in RacingDoctorForms :
               SubmitRegisterDoctor(s, a.first_name, a.last_name, a.email, a.phone,
                                    a.speciality)
        \/ DbExecute(s)
        \/ DbCommit(s)
        \/ DbRaise(s)

SpecRace == Init /\ [][NextRace]_vars

(***************************************************************************)
(* Visits: patients record vitals and read their prescription history,     *)
(* doctors save prescriptions.                                             *)
(***************************************************************************)
\* Requests for the first patient on one date (the id typed padded and in
\* lower case, and exactly), one whose medicines are all blank, and one for
\* an id nobody has.
VisitForms ==
    { Rx(<<" ", "1", "c", "0", "0", "0", "0", "0", "a">>, Date(2024, 2, 9), <<"s">>,
         <<Aspirin, Blank, Syrup>>),
      Rx(<<"1", "C", "0", "0", "0", "0", "0", "A">>, Date(2024, 2, 9), Empty,
         <<Syrup>>),
      Rx(<<"2", "d", "0", "0", "0", "0", "0", "b">>, Date(2024, 10, 1), <<"s">>,
         <<Spaces>>),
      Rx(<<"3", "E", "0", "0", "0", "0", "0", "C">>, Date(2024, 10, 1), <<"s">>,
         <<Aspirin>>) }

\* One session: everyone signs up, logs in and out, records vitals and
\* saves prescriptions in turn.
RecordDoctors == { DForm(<<"B">>, <<"d">>, <<"x">>, <<"1">>, <<"c">>) }

NextRecords ==
    \E s \in AuthSessions :
        \/ \E a \in PatientSignups :
               RegisterPatient(s, a.form.first_name, a.form.last_name, a.form.email,
                               a.form.phone, a.uuid)
        \/ \E a \in RecordDoctors :
               RegisterDoctor(s, a.first_name, a.last_name, a.email, a.phone, a.speciality)
        \/ \E a \in PatientLogins : LoginPatient(s, a.first_name, a.unique_id)
        \/ \E a \in RecordDoctors : LoginDoctor(s, a.first_name, a.last_name, a.phone)
        \/ RecordVital(s, Date(2024, 10, 1), 705, 0, 80, 0, 5)
        \/ ViewPrescriptions(s)
        \/ \E a \in VisitForms :
               SubmitPrescription(s, a.patient_id, a.visit_date, a.summary, a.medicines)
        \/ NextMedicine(s)
        \/ FinishPrescription(s)
        \/ StopPartWay(s)
        \/ Logout(s)

SpecRecords == Init /\ [][NextRecords]_vars

\* Two sessions: one patient, two doctors; each session keeps the identity
\* it logged in with.
VisitPatients ==
    { Signup(PForm(<<"B">>, Empty, <<"x">>, <<"1">>),
             <<"1", "c", "0", "0", "0", "0", "0", "a", "-", "4", "b">>) }

VisitPatientLogins ==
    { [first_name |-> a.form.first_name, unique_id |-> PyLower(NewUniqueId(a.uuid))]
        : a \in VisitPatients }

NextVisits ==
    \E s \in Sessions :
        \/ \E a \in VisitPatients :
               RegisterPatient(s, a.form.first_name, a.form.last_name, a.form.email,
                               a.form.phone, a.uuid)
        \/ \E a \in DoctorSignups :
               RegisterDoctor(s, a.first_name, a.last_name, a.email, a.phone, a.speciality)
        \/ \E a \in VisitPatientLogins : LoginPatient(s, a.first_name, a.unique_id)
        \/ \E a \in DoctorSignups : LoginDoctor(s, a.first_name, a.last_name, a.phone)
        \/ ViewPrescriptions(s)
        \/ \E a \in VisitForms :
               SubmitPrescription(s, a.patient_id, a.visit_date, a.summary, a.medicines)
        \/ NextMedicine(s)
        \/ FinishPrescription(s)
        \/ StopPartWay(s)

SpecVisits == Init /\ [][NextVisits]_vars

(***************************************************************************)
(* Properties of registration and login.                                   *)
(***************************************************************************)
\* Session s submitted form op in this step.
Submitted(s, op) == out'[s].tick # out[s].tick /\ out'[s].op = op

EmailTaken(tbl, e) == \E i \in 1..Len(tbl) : tbl[i].email = e
PhoneTaken(tbl, p) == \E i \in 1..Len(tbl) : tbl[i].phone = p

NoSharedEmailOrPhone(tbl) ==
    \A i, j \in 1..Len(tbl) :
        i # j => tbl[i].email # tbl[j].email /\ tbl[i].phone # tbl[j].phone

\* C1 as stated: every patient or doctor registration whose email or phone
\* equals that of a stored row of its table is answered with DuplicateError
\* and leaves the table as it was, and no two rows of a table ever share an
\* email or a phone.
C1_AnyDuplicateIsDuplicateError ==
    /\ [](NoSharedEmailOrPhone(patients) /\ NoSharedEmailOrPhone(doctors))
    /\ [][\A s \in Sessions :
            /\ (/\ Submitted(s, "register_patient")
                /\ \/ EmailTaken(patients, out'[s].args.email)
                   \/ PhoneTaken(patients, out'[s].args.phone))
               => (out'[s].res = "DuplicateError" /\ patients' = patients)
            /\ (/\ Submitted(s, "register_doctor")
                /\ \/ EmailTaken(doctors, out'[s].args.email)
                   \/ PhoneTaken(doctors, out'[s].args.phone))
               => (out'[s].res = "DuplicateError" /\ doctors' = doctors)
         ]_vars

\* C1 as amended: a registration with every mandatory field filled in whose
\* email or phone equals that of a stored row of its table is answered with
\* DuplicateError and leaves the table as it was (row count included), and no
\* two rows of a table ever share an email or a phone.
C1_DuplicateRejected ==
    /\ [](NoSharedEmailOrPhone(patients) /\ NoSharedEmailOrPhone(doctors))
    /\ [][\A s \in Sessions :
            /\ (/\ Submitted(s, "register_patient")
                /\ out'[s].args.first_name # Empty
                /\ out'[s].args.email # Empty
                /\ out'[s].args.phone # Empty
                /\ \/ EmailTaken(patients, out'[s].args.email)
                   \/ PhoneTaken(patients, out'[s].args.phone))
               => (out'[s].res = "DuplicateError" /\ patients' = patients
                     /\ Len(patients') = Len(patients))
            /\ (/\ Submitted(s, "register_doctor")
                /\ \A k \in {"first_name", "last_name", "email", "phone", "speciality"} :
                       out'[s].args[k] # Empty
                /\ \/ EmailTaken(doctors, out'[s].args.email)
                   \/ PhoneTaken(doctors, out'[s].args.phone))
               => (out'[s].res = "DuplicateError" /\ doctors' = doctors
                     /\ Len(doctors') = Len(doctors))
         ]_vars

\* A complete patient registration repeating a stored phone under an id no
\* stored row has was answered with DuplicateError.
C1_Witness ==
    \E s \in Sessions :
        /\ out[s].op = "register_patient"
        /\ out[s].res = "DuplicateError"
        /\ out[s].args.first_name # Empty /\ out[s].args.email # Empty
        /\ PhoneTaken(patients, out[s].args.phone)
        /\ ~EmailTaken(patients, out[s].args.email)
        /\ \A i \in 1..Len(patients) :
               patients[i].unique_id # NewUniqueId(out[s].args.uuid)

\* C2: a patient registration with non-empty first_name, email and phone,
\* neither email nor phone stored yet, succeeds, adds exactly one row and
\* shows a unique_id no stored row has, whatever the generator returns.
C2_FreshRegistrationSucceeds ==
    [][\A s \in Sessions :
          (/\ Submitted(s, "register_patient")
           /\ out'[s].args.first_name # Empty
           /\ out'[s].args.email # Empty
           /\ out'[s].args.phone # Empty
           /\ ~EmailTaken(patients, out'[s].args.email)
           /\ ~PhoneTaken(patients, out'[s].args.phone))
          => /\ out'[s].res = "Success"
             /\ Len(patients') = Len(patients) + 1
             /\ \A i \in 1..Len(patients) : patients[i].unique_id # out'[s].val
      ]_vars

CaseVariants(x) == { x, PyLower(x), PyUpper(x) }

\* C5: whoever registered can log in with the registered values, in any
\* letter case, and the session identity is then exactly the stored row.
C5_RegisterThenLogin ==
    [][\A s \in Sessions :
         /\ Submitted(s, "login_patient") =>
              \A i \in 1..Len(patients) :
                 (/\ out'[s].args.first_name \in CaseVariants(patients[i].first_name)
                  /\ out'[s].args.unique_id \in CaseVariants(patients[i].unique_id))
                 => session'[s] = [logged_in |-> TRUE, role |-> "Patient",
                                   user_info |-> patients[i]]
         /\ Submitted(s, "login_doctor") =>
              \A i \in 1..Len(doctors) :
                 (/\ out'[s].args.first_name = doctors[i].first_name
                  /\ out'[s].args.last_name = doctors[i].last_name
                  /\ out'[s].args.phone = doctors[i].phone)
                 => session'[s] = [logged_in |-> TRUE, role |-> "Doctor",
                                   user_info |-> DoctorUserInfo(doctors[i])]
      ]_vars

(***************************************************************************)
(* Properties of the dashboard.                                            *)
(***************************************************************************)
Measurements == {"weight_kg", "bp_systolic", "bp_diastolic", "heart_rate", "sugar_level"}

NoZeroStored == \A i \in 1..Len(vitals) : \A k \in Measurements : vitals[i][k] # <<0>>

Nullable(x) == IF x = 0 THEN <<>> ELSE <<x>>

\* C8: every vital recording appends exactly one row, for the logged-in
\* patient, and changes no stored row; each measurement of the new row is
\* null exactly when zero was submitted for it and is the submitted value
\* otherwise; no stored measurement is zero.
C8_VitalAppended ==
    /\ []NoZeroStored
    /\ [][\A s \in Sessions :
            Submitted(s, "record_vital") =>
              LET a == out'[s].args
                  new == vitals'[Len(vitals')]
              IN  /\ Len(vitals') = Len(vitals) + 1
                  /\ \A i \in 1..Len(vitals) : vitals'[i] = vitals[i]
                  /\ new.patient_id = session[s].user_info.unique_id
                  /\ new.weight_kg = Nullable(a.weight)
                  /\ new.bp_systolic = Nullable(a.bp_s)
                  /\ new.bp_diastolic = Nullable(a.bp_d)
                  /\ new.heart_rate = Nullable(a.hr)
                  /\ new.sugar_level = Nullable(a.sugar)
         ]_vars

\* A second record of the same patient and the same day was stored beside the
\* first, with some measurements null and others not.
C8_Witness ==
    /\ Len(vitals) = 2
    /\ vitals[1].patient_id = vitals[2].patient_id
    /\ vitals[1].record_date = vitals[2].record_date
    /\ vitals[2].weight_kg = <<>>
    /\ vitals[2].bp_systolic # <<>>
    /\ \E s \in Sessions : out[s].op = "record_vital"

DateLeq(a, b) ==
    \/ a.y < b.y
    \/ a.y = b.y /\ a.m < b.m
    \/ a.y = b.y /\ a.m = b.m /\ a.d <= b.d

KnownIds == { NewUniqueId(a.uuid) : a \in PatientSignups }

\* The six retrieved columns of a stored row.
Retrieved(r) ==
    [Date |-> ToDatetime(r.record_date), Weight |-> r.weight_kg,
     BPSystolic |-> r.bp_systolic, BPDiastolic |-> r.bp_diastolic,
     HeartRate |-> r.heart_rate, Sugar |-> r.sugar_level]

\* C9: in every state, vital retrieval for a patient_id returns the rows
\* stored for that patient_id, each as often as it is stored and no other,
\* in non-decreasing date order, and the empty sequence when there are none.
C9_VitalsRetrieved ==
    \A pid \in KnownIds :
        LET res == GetPatientVitals(vitals, pid)
            mine == { i \in 1..Len(vitals) : vitals[i].patient_id = pid }
        IN  /\ Len(res) = Cardinality(mine)
            /\ \A i \in mine :
                 Cardinality({ j \in 1..Len(res) : res[j] = Retrieved(vitals[i]) })
                   = Cardinality({ j \in mine : Retrieved(vitals[j]) = Retrieved(vitals[i]) })
            /\ \A j \in 1..(Len(res) - 1) : DateLeq(res[j].Date, res[j + 1].Date)
            /\ mine = {} => res = <<>>

\* A patient who recorded October before February retrieved both rows,
\* February first.
C9_Witness ==
    \E s \in Sessions :
        /\ out[s].op = "get_patient_vitals"
        /\ Len(out[s].val) = 2
        /\ out[s].val[1].Date.m = 2
        /\ out[s].val[2].Date.m = 10
        /\ Len(vitals) = 2
        /\ vitals[1].record_date = StrftimeYmdHMS(Date(2024, 10, 1))

ProfileFields == {"height_cm", "dob", "gender", "diet_pref", "location"}
IdentityFields == {"unique_id", "first_name", "last_name", "email", "phone"}

\* The five submitted values as they are stored.
Stored(a) ==
    [height_cm |-> <<a.height>>, dob |-> <<StrftimeYmd(a.dob)>>, gender |-> <<a.gender>>,
     diet_pref |-> <<a.diet>>, location |-> <<a.location>>]

\* C10: a profile update overwrites the five mutable fields of the row keyed
\* by the session's unique_id with the submitted values, leaves that row's
\* key and contact fields and every other row unchanged, and applying the
\* same update again changes neither the table nor the session identity.
C10_ProfileOverwrite ==
    [][\A s \in Sessions :
         Submitted(s, "save_profile") =>
           LET a == out'[s].args
               uid == session[s].user_info.unique_id
               dobText == StrftimeYmd(a.dob)
           IN  /\ Len(patients') = Len(patients)
               /\ \A i \in 1..Len(patients) :
                    IF patients[i].unique_id = uid
                    THEN /\ \A k \in ProfileFields : patients'[i][k] = Stored(a)[k]
                         /\ \A k \in IdentityFields : patients'[i][k] = patients[i][k]
                    ELSE patients'[i] = patients[i]
               /\ \A k \in ProfileFields : session'[s].user_info[k] = Stored(a)[k]
               /\ \A k \in IdentityFields :
                    session'[s].user_info[k] = session[s].user_info[k]
               /\ UpdatePatients(patients', uid, a.height, dobText, a.gender, a.diet,
                                 a.location) = patients'
               /\ WithProfile(session'[s].user_info, a.height, dobText, a.gender,
                              a.diet, a.location) = session'[s].user_info
      ]_vars

\* One of two patients has saved a profile; the other row still holds none.
C10_Witness ==
    \E s \in Sessions :
        /\ out[s].op = "save_profile"
        /\ Len(patients) = 2
        /\ \E i, j \in 1..2 :
             /\ patients[i].unique_id = session[s].user_info.unique_id
             /\ patients[i].height_cm = <<out[s].args.height>>
             /\ patients[i].location = <<out[s].args.location>>
             /\ j # i
             /\ patients[j].height_cm = <<>>

(***************************************************************************)
(* Properties of the doctor portal.                                        *)
(***************************************************************************)
\* No stored unique_id equals the submitted id once it is trimmed and letter
\* case is ignored.
NoSuchPatient(patient_id) ==
    \A i \in 1..Len(patients) :
        PyUpper(patients[i].unique_id) # PyUpper(Strip(patient_id))

\* C6 as stated: a prescription for a patient_id that no stored unique_id
\* matches is answered with NotFoundError and persists no row, however many
\* non-blank medicines it carries.
C6_UnknownPatientIsNotFound ==
    [][\A s \in Sessions :
         (Submitted(s, "save_prescription") /\ NoSuchPatient(out'[s].args.patient_id))
         => (out'[s].res = "NotFoundError" /\ prescriptions' = prescriptions)
      ]_vars

\* C6 as amended: a prescription for a non-empty patient_id that no stored
\* unique_id matches is answered with NotFoundError, and one for an empty
\* patient_id with the required-field error; either way no row is persisted,
\* however many non-blank medicines it carries.
C6_UnknownPatientRejected ==
    [][\A s \in Sessions :
         (Submitted(s, "save_prescription") /\ NoSuchPatient(out'[s].args.patient_id))
         => /\ prescriptions' = prescriptions
            /\ out'[s].res = IF out'[s].args.patient_id = <<>>
                             THEN "ValidationError" ELSE "NotFoundError"
      ]_vars

NamedMedicines(meds) == { i \in 1..Len(meds) : Strip(meds[i].name) # <<>> }

\* With patients stored, a prescription carrying two named medicines for an
\* id none of them has was answered with NotFoundError.
C6_Witness ==
    \E s \in Sessions :
        /\ out[s].op = "save_prescription"
        /\ out[s].res = "NotFoundError"
        /\ Len(out[s].args.patient_id) = IdLen
        /\ Cardinality(NamedMedicines(out[s].args.medicines)) = 2
        /\ Len(patients) = 2
        /\ Len(prescriptions) >= 1

RECURSIVE Named(_)
\* The entries of a medicine sequence whose name is not blank, in order.
Named(meds) ==
    IF meds = <<>> THEN <<>>
    ELSE IF Strip(Head(meds).name) # <<>> THEN <<Head(meds)>> \o Named(Tail(meds))
    ELSE Named(Tail(meds))

\* C7: a prescription for an existing patient adds one row per medicine
\* whose name is not blank after trimming, in order, and nothing else; every
\* new row carries the patient's id (the submitted id trimmed and in upper
\* case), the doctor's name, the visit date and the summary of the request;
\* the answer is Success when a row was added and EmptySubmissionError, with
\* no row added, when every name is blank.
C7_OneRowPerNamedMedicine ==
    [][\A s \in Sessions :
         (Submitted(s, "save_prescription") /\ ~NoSuchPatient(out'[s].args.patient_id))
         => LET a == out'[s].args
                named == Named(a.medicines)
                n == Len(prescriptions)
            IN  /\ Len(prescriptions') = n + Len(named)
                /\ \A i \in 1..n : prescriptions'[i] = prescriptions[i]
                /\ \A k \in 1..Len(named) :
                     LET r == prescriptions'[n + k]
                     IN  /\ r.medicine = named[k].name
                         /\ r.frequency = named[k].freq
                         /\ r.timing = named[k].timing
                         /\ r.patient_id = PyUpper(Strip(a.patient_id))
                         /\ \E i \in 1..Len(patients) : patients[i].unique_id = r.patient_id
                         /\ r.doctor_name = <<"D", "r", ".", " ">>
                                \o session[s].user_info.first_name \o <<" ">>
                                \o session[s].user_info.last_name
                         /\ r.visit_date = StrftimeYmd(a.visit_date)
                         /\ r.summary = a.summary
                /\ (out'[s].res = "Success") <=> (Len(prescriptions') > n)
                /\ Len(named) = 0 => out'[s].res = "EmptySubmissionError"
      ]_vars

\* A request with a blank entry before a named one was answered with Success
\* and left exactly one more row.
C7_Witness ==
    \E s \in Sessions :
        /\ out[s].op = "save_prescription"
        /\ out[s].res = "Success"
        /\ Len(out[s].args.medicines) = 2
        /\ out[s].args.medicines[1].name = <<>>
        /\ Len(prescriptions) = 1

(***************************************************************************)
(* Properties of concurrent registration.                                  *)
(***************************************************************************)
\* Sessions s and t have each finished a registration for the same table,
\* submitted with email and phone unused, the two in flight at the same
\* time and carrying the same email or the same phone.
Raced(s, t) ==
    /\ s # t
    /\ pc[s] = "idle" /\ pc[t] = "idle"
    /\ out[s].op \in {"register_patient", "register_doctor"}
    /\ out[t].op = out[s].op
    /\ out[s].res \in {"Success", "DuplicateError"}
    /\ out[t].res \in {"Success", "DuplicateError"}
    /\ t \in hist[s].overlap /\ s \in hist[t].overlap
    /\ hist[s].fresh /\ hist[t].fresh
    /\ \/ out[s].args.email = out[t].args.email
       \/ out[s].args.phone = out[t].args.phone

\* C3: of two registrations racing on the same email or phone, exactly one
\* succeeds and the other is answered with DuplicateError.
C3_ExactlyOneWins ==
    \A s, t \in Sessions :
        Raced(s, t) =>
            \/ out[s].res = "Success" /\ out[t].res = "DuplicateError"
            \/ out[s].res = "DuplicateError" /\ out[t].res = "Success"


(***************************************************************************)
(* Properties of the stored records.                                       *)
(***************************************************************************)
References(tbl) ==
    \A i \in 1..Len(tbl) :
        \E j \in 1..Len(patients) : patients[j].unique_id = tbl[i].patient_id

\* Every stored row is among the rows some patient's retrieval returns.
AllRetrievable ==
    /\ \A i \in 1..Len(vitals) :
           \E j \in 1..Len(patients) :
               LET mine == VitalsQuery(vitals, patients[j].unique_id)
               IN  \E k \in 1..Len(mine) : mine[k] = vitals[i]
    /\ \A i \in 1..Len(prescriptions) :
           \E j \in 1..Len(patients) :
               LET mine == PrescriptionsQuery(prescriptions, patients[j].unique_id)
               IN  \E k \in 1..Len(mine) : mine[k] = prescriptions[i]

\* C11: in every reachable state the patient_id of every vitals row and of
\* every prescriptions row equals, character for character, the unique_id
\* of a stored patient, and the retrieval by that patient's unique_id
\* returns the row.
C11_ReferentialIntegrity ==
    References(vitals) /\ References(prescriptions) /\ AllRetrievable

\* A vitals row is stored, and a prescriptions row is stored whose id was
\* typed differently from how it is stored.
C11_Witness ==
    /\ vitals # <<>>
    /\ \E s \in Sessions :
           /\ out[s].op = "save_prescription"
           /\ \E i \in 1..Len(prescriptions) :
                  /\ prescriptions[i].rx_id \in loop[s].written
                  /\ prescriptions[i].patient_id # out[s].args.patient_id

\* C12: in every reachable state, any two prescriptions rows of one patient
\* with the same visit_date carry the same doctor_name and the same summary
\* (so the doctor and the summary of a group's first row describe all of
\* the group's rows).
C12_OneDoctorAndSummaryPerVisitDate ==
    \A i, j \in 1..Len(prescriptions) :
        /\ prescriptions[i].patient_id = prescriptions[j].patient_id
        /\ prescriptions[i].visit_date = prescriptions[j].visit_date
        => /\ prescriptions[i].doctor_name = prescriptions[j].doctor_name
           /\ prescriptions[i].summary = prescriptions[j].summary

(***************************************************************************)
(* Properties of a prescription being saved while others read.             *)
(***************************************************************************)
\* How many rows inserted so far by the loop of session s are among tbl.
RowsOf(s, tbl) ==
    Cardinality({ i \in 1..Len(tbl) : tbl[i].rx_id \in loop[s].written })

\* Session s is saving a prescription and its loop has not ended.
Recording(s) == pc[s] = "medicines"

\* C13: a retrieval of prescriptions by another session while a
\* prescription with N non-blank medicines is being saved returns either
\* none or all N of the rows of that prescription, and when the saving
\* stops part-way none of its rows is left in the table.
C13_AllOrNothing ==
    [][\A s \in Sessions :
           Recording(s) =>
               /\ \A t \in Sessions \ {s} :
                      Submitted(t, "get_patient_prescriptions") =>
                          LET seen == RowsOf(s, PrescriptionsQuery(
                                                   prescriptions,
                                                   session[t].user_info.unique_id))
                          IN  /\ Len(out'[t].val.frame) =
                                     Len(PrescriptionsQuery(prescriptions,
                                                            session[t].user_info.unique_id))
                              /\ seen \in {0, CountNamed(out[s].args.medicines)}
               /\ out'[s].res = "OperationalError" => RowsOf(s, prescriptions') = 0]_vars

====
